---- MODULE Spec2Model ----
(***************************************************************************)
(* Model of the byte_string crate: ByteStr (a wrapper of [u8]) and         *)
(* ByteString (a wrapper of Vec<u8>), their Debug/Display rendering and    *)
(* their pass-through comparison, hashing and buffer operations.           *)
(*                                                                         *)
(* Bytes are the integers 0..255.  Rendered text is a sequence of          *)
(* character codes (98 = 'b', 34 = '"', 92 = '\', 39 = ''', 120 = 'x').     *)
(* A tuple struct with one field is a 1-tuple: ByteStr(s) is <<s>> and its *)
(* field .0 is x[1].                                                       *)
(***************************************************************************)
EXTENDS Integers, Sequences, FiniteSets, TLC

VARIABLES
    input,      \* the byte sequence handed to the constructor under test
    op,         \* rendering: the formatting entry point that has run
    sink,       \* rendering: the Formatter (text accepted, write attempts)
    result,     \* rendering: what fmt returned, "Ok" or "Err"
    lhs,        \* comparison: bytes of the left operand
    rhs,        \* comparison: bytes of the right operand
    cop,        \* comparison: the comparison/hash operation that has run
    cres,       \* comparison: its result
    buf,        \* buffer: the ByteString under mutation
    bop,        \* buffer: the last operation applied to buf
    rendered,   \* buffer: the text returned by the last render
    before,     \* buffer: buf as it was when the last operation started
    isrc,       \* iteration: the bytes of the value iterated
    ikind,      \* iteration: the IntoIterator impl in use
    ipc,        \* iteration: "idle", "iterating" or "done" (next returned None)
    cursor,     \* iteration: the slice iterator (its items, its position)
    yielded,    \* iteration: the items the current iteration has yielded
    pass,       \* iteration: how many iterations have been started
    first       \* iteration: the items the first iteration yielded

vars == <<input, op, sink, result, lhs, rhs, cop, cres, buf, bop, rendered, before,
          isrc, ikind, ipc, cursor, yielded, pass, first>>

renderVars == <<input, op, sink, result>>
cmpVars    == <<lhs, rhs, cop, cres>>
bufVars    == <<buf, bop, rendered, before>>
iterVars   == <<isrc, ikind, ipc, cursor, yielded, pass, first>>

iterIdle ==
    /\ isrc = <<>>
    /\ ikind = "none"
    /\ ipc = "idle"
    /\ cursor = [items |-> <<>>, pos |-> 0]
    /\ yielded = <<>>
    /\ pass = 0
    /\ first = <<>>

-----------------------------------------------------------------------------
(* Bounds *)

MaxLen == 3         \* longest sampled input of the rendering specification
MaxFailAt == 14     \* latest write attempt at which the sink may fail

Byte == 0..255

\* One byte of every escape class, plus the letters that occur inside
\* escapes (so that a literal "\", "x", "0" sequence meets a hex escape).
SampleBytes == {0, 10, 39, 48, 92, 120}

RECURSIVE SeqsUpTo(_, _)
SeqsUpTo(S, n) ==
    IF n = 0 THEN {<<>>}
    ELSE LET shorter == SeqsUpTo(S, n - 1)
         IN  shorter \cup {Append(s, x) : s \in {t \in shorter : Len(t) = n - 1}, x \in S}

-----------------------------------------------------------------------------
(* The wrappers *)

\* ByteStr::new: ref_cast of the slice to the transparent wrapper.
ByteStr_new(s) == <<s>>

\* ByteString::new: moves the vector into the wrapper.
ByteString_new(s) == <<s>>

\* Mutant: the borrow starts one byte late (&self.0[1..]).
ByteString_borrow_tail(self) ==
    ByteStr_new(IF self[1] = <<>> THEN <<>> ELSE Tail(self[1]))

\* impl Borrow<ByteStr> for ByteString: ByteStr::new(&self.0).
ByteString_borrow(self) == ByteStr_new(self[1])

\* impl IntoIterator for &ByteStr: self.0.into_iter(), the items in the
\* order the slice iterator yields them.
ByteStr_into_iter(self) == self[1]

-----------------------------------------------------------------------------
(* core::ascii::escape_default, as called by ByteStr's Debug *)

\* Mutant: uppercase hexadecimal digits.
HexDigit_upper(n) == IF n < 10 THEN 48 + n ELSE 55 + n

HexDigit(n) == IF n < 10 THEN 48 + n ELSE 87 + n

\* Mutant: the printable range ends one byte early (0x20..0x7E exclusive).
escape_default_short_range(c) ==
    CASE c = 9  -> <<92, 116>>
      [] c = 13 -> <<92, 114>>
      [] c = 10 -> <<92, 110>>
      [] c = 92 -> <<92, 92>>
      [] c = 39 -> <<92, 39>>
      [] c = 34 -> <<92, 34>>
      [] c \in 32..125 /\ c \notin {92, 39, 34} -> <<c>>
      [] OTHER -> <<92, 120, HexDigit(c \div 16), HexDigit(c % 16)>>

\* Mutant: the apostrophe is not escaped.
escape_default_no_apostrophe(c) ==
    CASE c = 9  -> <<92, 116>>
      [] c = 13 -> <<92, 114>>
      [] c = 10 -> <<92, 110>>
      [] c = 92 -> <<92, 92>>
      [] c = 34 -> <<92, 34>>
      [] c \in 32..126 /\ c \notin {92, 34} -> <<c>>
      [] OTHER -> <<92, 120, HexDigit(c \div 16), HexDigit(c % 16)>>

\* Mutant: the backslash is not escaped.
escape_default_raw_backslash(c) ==
    CASE c = 9  -> <<92, 116>>
      [] c = 13 -> <<92, 114>>
      [] c = 10 -> <<92, 110>>
      [] c = 39 -> <<92, 39>>
      [] c = 34 -> <<92, 34>>
      [] c \in 32..126 /\ c \notin {39, 34} -> <<c>>
      [] OTHER -> <<92, 120, HexDigit(c \div 16), HexDigit(c % 16)>>

escape_default(c) ==
    CASE c = 9  -> <<92, 116>>
      [] c = 13 -> <<92, 114>>
      [] c = 10 -> <<92, 110>>
      [] c = 92 -> <<92, 92>>
      [] c = 39 -> <<92, 39>>
      [] c = 34 -> <<92, 34>>
      [] c \in 32..126 /\ c \notin {92, 39, 34} -> <<c>>
      [] OTHER -> <<92, 120, HexDigit(c \div 16), HexDigit(c % 16)>>

-----------------------------------------------------------------------------
(* The formatting sink *)

\* A Formatter over a sink that refuses write attempt number failAt
\* (0: never refuses) and accepts every other attempt.
Formatter(k) == [out |-> <<>>, attempts |-> 0, failAt |-> k]

\* write!(f, ...): one write of the text s to the sink.
write(f, s) ==
    LET n == f.attempts + 1
    IN  IF n = f.failAt
        THEN [f |-> [f EXCEPT !.attempts = n], res |-> "Err"]
        ELSE [f |-> [f EXCEPT !.attempts = n, !.out = f.out \o s], res |-> "Ok"]

-----------------------------------------------------------------------------
(* impl Debug for ByteStr *)

\* Mutant: the result of each character's write is dropped (no `?`).
RECURSIVE fmt_chars_ignore_err(_, _)
fmt_chars_ignore_err(f, chars) ==
    IF chars = <<>> THEN [f |-> f, res |-> "Ok"]
    ELSE fmt_chars_ignore_err(write(f, <<Head(chars)>>).f, Tail(chars))

\* for ch in escape_default(byte) { write!(f, "{}", ch as char)?; }
RECURSIVE fmt_chars(_, _)
fmt_chars(f, chars) ==
    IF chars = <<>> THEN [f |-> f, res |-> "Ok"]
    ELSE LET r == write(f, <<Head(chars)>>)
         IN  IF r.res = "Err" THEN r ELSE fmt_chars(r.f, Tail(chars))

\* for &byte in self { ... }: the loop body once per byte, in order, leaving
\* at the first Err.  The loop over a sequence is the loop over its first
\* half followed, unless that returned Err, by the loop over its second
\* half; splitting in the middle keeps the evaluation depth logarithmic.
RECURSIVE fmt_bytes(_, _)
fmt_bytes(f, bs) ==
    IF bs = <<>> THEN [f |-> f, res |-> "Ok"]
    ELSE IF Len(bs) = 1 THEN fmt_chars(f, escape_default(bs[1]))
    ELSE LET h == Len(bs) \div 2
             r == fmt_bytes(f, SubSeq(bs, 1, h))
         IN  IF r.res = "Err" THEN r ELSE fmt_bytes(r.f, SubSeq(bs, h + 1, Len(bs)))

\* Mutant: the closing quote is never written.
ByteStr_Debug_fmt_no_close(self, f) ==
    LET r1 == write(f, <<98, 34>>)
    IN  IF r1.res = "Err" THEN r1
        ELSE fmt_bytes(r1.f, ByteStr_into_iter(self))

ByteStr_Debug_fmt(self, f) ==
    LET r1 == write(f, <<98, 34>>)
    IN  IF r1.res = "Err" THEN r1
        ELSE LET r2 == fmt_bytes(r1.f, ByteStr_into_iter(self))
             IN  IF r2.res = "Err" THEN r2
                 ELSE write(r2.f, <<34>>)

\* impl Debug for ByteString: Debug::fmt(Borrow::<ByteStr>::borrow(self), f)
ByteString_Debug_fmt(self, f) == ByteStr_Debug_fmt(ByteString_borrow(self), f)

\* <ByteStr as Display>::fmt, the callee of ByteString's Display.
ByteStr_Display_fmt(self, f) == ByteStr_Debug_fmt(self, f)

\* Mutant: Display writes the bytes as they are, unquoted and unescaped.
ByteString_Display_fmt_raw(self, f) == write(f, self[1])

\* impl Display for ByteString: Display::fmt(Borrow::<ByteStr>::borrow(self), f)
ByteString_Display_fmt(self, f) == ByteStr_Display_fmt(ByteString_borrow(self), f)

-----------------------------------------------------------------------------
(* The tests' data *)

\* tests::debug_bytestr / debug_bytestring: the bytes 0x00..=0xFF ascending.
bytes == [i \in 1..256 |-> i - 1]

\* tests::EMPTY
EMPTY == <<98, 34, 34>>

\* tests::ALL_BYTES
ALL_BYTES ==
  <<
    98, 34, 92, 120, 48, 48, 92, 120, 48, 49, 92, 120, 48, 50, 92, 120, 48, 51, 92, 120,
    48, 52, 92, 120, 48, 53, 92, 120, 48, 54, 92, 120, 48, 55, 92, 120, 48, 56, 92, 116,
    92, 110, 92, 120, 48, 98, 92, 120, 48, 99, 92, 114, 92, 120, 48, 101, 92, 120, 48, 102,
    92, 120, 49, 48, 92, 120, 49, 49, 92, 120, 49, 50, 92, 120, 49, 51, 92, 120, 49, 52,
    92, 120, 49, 53, 92, 120, 49, 54, 92, 120, 49, 55, 92, 120, 49, 56, 92, 120, 49, 57,
    92, 120, 49, 97, 92, 120, 49, 98, 92, 120, 49, 99, 92, 120, 49, 100, 92, 120, 49, 101,
    92, 120, 49, 102, 32, 33, 92, 34, 35, 36, 37, 38, 92, 39, 40, 41, 42, 43, 44, 45,
    46, 47, 48, 49, 50, 51, 52, 53, 54, 55, 56, 57, 58, 59, 60, 61, 62, 63, 64, 65,
    66, 67, 68, 69, 70, 71, 72, 73, 74, 75, 76, 77, 78, 79, 80, 81, 82, 83, 84, 85,
    86, 87, 88, 89, 90, 91, 92, 92, 93, 94, 95, 96, 97, 98, 99, 100, 101, 102, 103, 104,
    105, 106, 107, 108, 109, 110, 111, 112, 113, 114, 115, 116, 117, 118, 119, 120, 121, 122, 123, 124,
    125, 126, 92, 120, 55, 102, 92, 120, 56, 48, 92, 120, 56, 49, 92, 120, 56, 50, 92, 120,
    56, 51, 92, 120, 56, 52, 92, 120, 56, 53, 92, 120, 56, 54, 92, 120, 56, 55, 92, 120,
    56, 56, 92, 120, 56, 57, 92, 120, 56, 97, 92, 120, 56, 98, 92, 120, 56, 99, 92, 120,
    56, 100, 92, 120, 56, 101, 92, 120, 56, 102, 92, 120, 57, 48, 92, 120, 57, 49, 92, 120,
    57, 50, 92, 120, 57, 51, 92, 120, 57, 52, 92, 120, 57, 53, 92, 120, 57, 54, 92, 120,
    57, 55, 92, 120, 57, 56, 92, 120, 57, 57, 92, 120, 57, 97, 92, 120, 57, 98, 92, 120,
    57, 99, 92, 120, 57, 100, 92, 120, 57, 101, 92, 120, 57, 102, 92, 120, 97, 48, 92, 120,
    97, 49, 92, 120, 97, 50, 92, 120, 97, 51, 92, 120, 97, 52, 92, 120, 97, 53, 92, 120,
    97, 54, 92, 120, 97, 55, 92, 120, 97, 56, 92, 120, 97, 57, 92, 120, 97, 97, 92, 120,
    97, 98, 92, 120, 97, 99, 92, 120, 97, 100, 92, 120, 97, 101, 92, 120, 97, 102, 92, 120,
    98, 48, 92, 120, 98, 49, 92, 120, 98, 50, 92, 120, 98, 51, 92, 120, 98, 52, 92, 120,
    98, 53, 92, 120, 98, 54, 92, 120, 98, 55, 92, 120, 98, 56, 92, 120, 98, 57, 92, 120,
    98, 97, 92, 120, 98, 98, 92, 120, 98, 99, 92, 120, 98, 100, 92, 120, 98, 101, 92, 120,
    98, 102, 92, 120, 99, 48, 92, 120, 99, 49, 92, 120, 99, 50, 92, 120, 99, 51, 92, 120,
    99, 52, 92, 120, 99, 53, 92, 120, 99, 54, 92, 120, 99, 55, 92, 120, 99, 56, 92, 120,
    99, 57, 92, 120, 99, 97, 92, 120, 99, 98, 92, 120, 99, 99, 92, 120, 99, 100, 92, 120,
    99, 101, 92, 120, 99, 102, 92, 120, 100, 48, 92, 120, 100, 49, 92, 120, 100, 50, 92, 120,
    100, 51, 92, 120, 100, 52, 92, 120, 100, 53, 92, 120, 100, 54, 92, 120, 100, 55, 92, 120,
    100, 56, 92, 120, 100, 57, 92, 120, 100, 97, 92, 120, 100, 98, 92, 120, 100, 99, 92, 120,
    100, 100, 92, 120, 100, 101, 92, 120, 100, 102, 92, 120, 101, 48, 92, 120, 101, 49, 92, 120,
    101, 50, 92, 120, 101, 51, 92, 120, 101, 52, 92, 120, 101, 53, 92, 120, 101, 54, 92, 120,
    101, 55, 92, 120, 101, 56, 92, 120, 101, 57, 92, 120, 101, 97, 92, 120, 101, 98, 92, 120,
    101, 99, 92, 120, 101, 100, 92, 120, 101, 101, 92, 120, 101, 102, 92, 120, 102, 48, 92, 120,
    102, 49, 92, 120, 102, 50, 92, 120, 102, 51, 92, 120, 102, 52, 92, 120, 102, 53, 92, 120,
    102, 54, 92, 120, 102, 55, 92, 120, 102, 56, 92, 120, 102, 57, 92, 120, 102, 97, 92, 120,
    102, 98, 92, 120, 102, 99, 92, 120, 102, 100, 92, 120, 102, 101, 92, 120, 102, 102, 34
  >>

-----------------------------------------------------------------------------
(* The rendering specification: one formatting call on a fresh sink *)

Inputs == SeqsUpTo(SampleBytes, MaxLen) \cup {<<c>> : c \in Byte} \cup {bytes}

cmpIdle == lhs = <<>> /\ rhs = <<>> /\ cop = "none" /\ cres = "none"
bufIdle == buf = <<>> /\ bop = "none" /\ rendered = <<>> /\ before = <<>>

Init ==
    /\ input \in Inputs
    /\ sink \in {Formatter(k) : k \in 0..MaxFailAt}
    /\ op = "none"
    /\ result = "none"
    /\ cmpIdle
    /\ bufIdle
    /\ iterIdle

Format(name, r) ==
    /\ op = "none"
    /\ op' = name
    /\ sink' = r.f
    /\ result' = r.res
    /\ UNCHANGED <<input, cmpVars, bufVars, iterVars>>

\* format!("{:?}", ByteStr::new(&input))
DebugByteStr == Format("ByteStr_Debug", ByteStr_Debug_fmt(ByteStr_new(input), sink))

\* format!("{:?}", ByteString::new(input))
DebugByteString == Format("ByteString_Debug", ByteString_Debug_fmt(ByteString_new(input), sink))

\* format!("{}", ByteString::new(input))
DisplayByteString == Format("ByteString_Display", ByteString_Display_fmt(ByteString_new(input), sink))

Next == DebugByteStr \/ DebugByteString \/ DisplayByteString

Spec == Init /\ [][Next]_vars

-----------------------------------------------------------------------------
(* Vocabulary of the rendering claims *)

\* The text a sink that never fails has received from a Debug of ByteStr.
Rendered(name) == op = name /\ sink.failAt = 0

\* The escapes of the bytes of s, concatenated in sequence order.
RECURSIVE ConcatEscapes(_)
ConcatEscapes(s) ==
    IF s = <<>> THEN <<>>
    ELSE IF Len(s) = 1 THEN escape_default(s[1])
    ELSE LET h == Len(s) \div 2
         IN  ConcatEscapes(SubSeq(s, 1, h)) \o ConcatEscapes(SubSeq(s, h + 1, Len(s)))

\* The text between the leading b" and the trailing " of t.
Body(t) == SubSeq(t, 3, Len(t) - 1)

Wrapped(t) == Len(t) >= 3 /\ t[1] = 98 /\ t[2] = 34 /\ t[Len(t)] = 34

\* C1: the Debug rendering of ByteStr over S is b" followed by the escapes of
\* the bytes of S in sequence order, with no separators, followed by one
\* closing "; the empty sequence renders as exactly b"".
C1_DebugFormat ==
    Rendered("ByteStr_Debug") =>
        /\ result = "Ok"
        /\ sink.out = <<98, 34>> \o ConcatEscapes(input) \o <<34>>
        /\ (input = <<>> => sink.out = EMPTY)

C1_Witness ==
    /\ Rendered("ByteStr_Debug")
    /\ input = <<0, 39, 120>>
    /\ sink.out = <<98, 34, 92, 120, 48, 48, 92, 39, 120, 34>>

\* The bytes the specification calls literal: printable ASCII other than
\* the double quote and the backslash.
ClaimedLiteral == (32..126) \ {34, 92}

\* The bytes the code writes as themselves.
Literal == (32..126) \ {34, 39, 92}

AllIn(s, S) == \A i \in 1..Len(s) : s[i] \in S

\* C2 as stated: every byte of 0x20..=0x7E other than 0x22 and 0x5C is
\* rendered as the one character with its own code.
C2_Original ==
    (Rendered("ByteStr_Debug") /\ AllIn(input, ClaimedLiteral)) =>
        sink.out = <<98, 34>> \o input \o <<34>>

\* C2 (amended): every byte of 0x20..=0x7E other than 0x22, 0x27 and 0x5C is
\* rendered as the one character with its own code; the apostrophe 0x27 is
\* rendered as the two characters \' .
C2_LiteralBytes ==
    /\ (Rendered("ByteStr_Debug") /\ AllIn(input, Literal)) =>
           sink.out = <<98, 34>> \o input \o <<34>>
    /\ (Rendered("ByteStr_Debug") /\ input = <<39>>) =>
           sink.out = <<98, 34, 92, 39, 34>>

C2_Witness ==
    /\ Rendered("ByteStr_Debug")
    /\ input = <<120, 48, 120>>
    /\ sink.out = <<98, 34, 120, 48, 120, 34>>

\* The digits of lowercase hexadecimal, "0123456789abcdef".
LowerHex == <<48, 49, 50, 51, 52, 53, 54, 55, 56, 57, 97, 98, 99, 100, 101, 102>>

HexEscaped == (0..8) \cup (11..12) \cup (14..31) \cup (127..255)

\* C3: 0x22 renders as \", 0x5C as \\, 0x09 as \t, 0x0A as \n, 0x0D as \r, and
\* each of 0x00-0x08, 0x0B-0x0C, 0x0E-0x1F, 0x7F-0xFF as \xHH, HH the two
\* lowercase hexadecimal digits of the byte, high nibble first.
C3_Escapes ==
    (Rendered("ByteStr_Debug") /\ Len(input) = 1) =>
        LET c == input[1]
            e == Body(sink.out)
        IN  /\ Wrapped(sink.out)
            /\ (c = 34 => e = <<92, 34>>)
            /\ (c = 92 => e = <<92, 92>>)
            /\ (c = 9  => e = <<92, 116>>)
            /\ (c = 10 => e = <<92, 110>>)
            /\ (c = 13 => e = <<92, 114>>)
            /\ (c \in HexEscaped =>
                   e = <<92, 120, LowerHex[(c \div 16) + 1], LowerHex[(c % 16) + 1]>>)

C3_Witness ==
    /\ Rendered("ByteStr_Debug")
    /\ input = <<127>>
    /\ sink.out = <<98, 34, 92, 120, 55, 102, 34>>

\* C4: the Debug rendering of the 256 byte values in ascending order, as a
\* ByteStr and as a ByteString, is the tests' expected string ALL_BYTES.
C4_AllBytes ==
    (input = bytes /\ sink.failAt = 0 /\ op \in {"ByteStr_Debug", "ByteString_Debug"}) =>
        (result = "Ok" /\ sink.out = ALL_BYTES)

C4_Witness ==
    /\ input = bytes
    /\ Rendered("ByteString_Debug")
    /\ result = "Ok"
    /\ Len(sink.out) = Len(ALL_BYTES)

\* The value of a hexadecimal digit character, -1 if it is none.
HexValue(ch) ==
    IF ch \in 48..57 THEN ch - 48
    ELSE IF ch \in 97..102 THEN ch - 87
    ELSE IF ch \in 65..70 THEN ch - 55
    ELSE -1

\* Reading the body of a byte string literal back: the bytes it denotes,
\* <<-1>> where the text is no well-formed literal body.
RECURSIVE Unescape(_)
Unescape(t) ==
    IF t = <<>> THEN <<>>
    ELSE IF t[1] = 34 THEN <<-1>>
    ELSE IF t[1] # 92 THEN <<t[1]>> \o Unescape(Tail(t))
    ELSE IF Len(t) < 2 THEN <<-1>>
    ELSE IF t[2] = 116 THEN <<9>> \o Unescape(SubSeq(t, 3, Len(t)))
    ELSE IF t[2] = 110 THEN <<10>> \o Unescape(SubSeq(t, 3, Len(t)))
    ELSE IF t[2] = 114 THEN <<13>> \o Unescape(SubSeq(t, 3, Len(t)))
    ELSE IF t[2] \in {92, 39, 34} THEN <<t[2]>> \o Unescape(SubSeq(t, 3, Len(t)))
    ELSE IF t[2] = 120 /\ Len(t) >= 4 /\ HexValue(t[3]) >= 0 /\ HexValue(t[4]) >= 0
         THEN <<16 * HexValue(t[3]) + HexValue(t[4])>> \o Unescape(SubSeq(t, 5, Len(t)))
    ELSE <<-1>>

\* C5: un-escaping the Debug rendering of S, its leading b" and trailing "
\* removed, yields exactly S (so no two sequences share a rendering).
C5_RoundTrip ==
    (Rendered("ByteStr_Debug") /\ Len(input) <= MaxLen) =>
        (Wrapped(sink.out) /\ Unescape(Body(sink.out)) = input)

C5_Witness ==
    /\ Rendered("ByteStr_Debug")
    /\ input = <<92, 120, 48>>
    /\ Unescape(Body(sink.out)) = input

\* C6: the Debug rendering of ByteString::new(S) is the Debug rendering of
\* ByteStr::new(S): same text, same result, on the same sink.
C6_OwnedEqualsBorrowed ==
    op = "ByteString_Debug" =>
        [f |-> sink, res |-> result]
            = ByteStr_Debug_fmt(ByteStr_new(input), Formatter(sink.failAt))

C6_Witness ==
    /\ Rendered("ByteString_Debug")
    /\ input = <<10, 48, 92>>
    /\ sink.out = <<98, 34, 92, 110, 48, 92, 92, 34>>

Full == <<98, 34>> \o ConcatEscapes(input) \o <<34>>
Writes == Len(Full) - 1

\* The text the sink holds once its first n writes were accepted.
Accepted(n) == IF n = 0 THEN <<>> ELSE SubSeq(Full, 1, n + 1)

\* C8: when a write fails, Debug of ByteStr and of ByteString returns the
\* error, with nothing written after the failed attempt and nothing retried;
\* when no write fails it returns Ok.
C8_SinkFailure ==
    op \in {"ByteStr_Debug", "ByteString_Debug"} =>
        IF sink.failAt \in 1..Writes
        THEN /\ result = "Err"
             /\ sink.attempts = sink.failAt
             /\ sink.out = Accepted(sink.failAt - 1)
        ELSE /\ result = "Ok"
             /\ sink.attempts = Writes
             /\ sink.out = Full

C8_Witness ==
    /\ op = "ByteString_Debug"
    /\ input = <<0, 120>>
    /\ sink.failAt = 6
    /\ result = "Err"
    /\ sink.attempts = 6
    /\ sink.out = <<98, 34, 92, 120, 48, 48>>

C8_WitnessClosingQuote ==
    /\ op = "ByteStr_Debug"
    /\ input = <<120>>
    /\ sink.failAt = 3
    /\ result = "Err"
    /\ sink.out = <<98, 34, 120>>

-----------------------------------------------------------------------------
(* Equality, ordering and hashing *)

MaxCmpLen == 2      \* longest operand of the comparison specification

\* The bytes compared: the least, the greatest and one in between.
CmpBytes == {0, 97, 255}

Min(m, n) == IF m <= n THEN m ELSE n

\* <[u8] as PartialEq>::eq, which the derived and the mixed eq call on .0:
\* same length and the same byte at every index.
slice_eq(x, y) == Len(x) = Len(y) /\ \A i \in 1..Len(x) : x[i] = y[i]

\* <[u8] as Ord>::cmp, which the derived cmp calls on .0: the first unequal
\* pair of the common prefix decides, then the lengths.
RECURSIVE slice_cmp_from(_, _, _)
slice_cmp_from(x, y, i) ==
    IF i > Min(Len(x), Len(y))
    THEN IF Len(x) < Len(y) THEN "Less"
         ELSE IF Len(x) > Len(y) THEN "Greater" ELSE "Equal"
    ELSE IF x[i] < y[i] THEN "Less"
    ELSE IF x[i] > y[i] THEN "Greater"
    ELSE slice_cmp_from(x, y, i + 1)

slice_cmp(x, y) == slice_cmp_from(x, y, 1)

\* <[u8] as Hash>::hash, which the derived hash calls on .0: what it feeds
\* the hasher, the length and then the bytes.
slice_hash(x) == <<Len(x)>> \o x

\* #[derive(PartialEq, Eq, PartialOrd, Ord, Hash)] struct ByteStr(pub [u8])
ByteStr_eq(self, other) == slice_eq(self[1], other[1])
ByteStr_cmp(self, other) == slice_cmp(self[1], other[1])
ByteStr_hash(self) == slice_hash(self[1])

\* impl PartialEq<[u8]> for ByteStr: &self.0 == other
ByteStr_eq_slice(self, other) == slice_eq(self[1], other)

\* impl PartialEq<ByteStr> for [u8]: self == &other.0
slice_eq_ByteStr(self, other) == slice_eq(self, other[1])

\* #[derive(Clone, PartialEq, Eq, PartialOrd, Ord, Hash)] struct ByteString(pub Vec<u8>)
ByteString_eq(self, other) == slice_eq(self[1], other[1])

\* Mutant: shorter is lesser whatever the bytes (length compared first).
ByteString_cmp_length_first(self, other) ==
    IF Len(self[1]) < Len(other[1]) THEN "Less"
    ELSE IF Len(self[1]) > Len(other[1]) THEN "Greater"
    ELSE slice_cmp(self[1], other[1])

ByteString_cmp(self, other) == slice_cmp(self[1], other[1])
ByteString_hash(self) == slice_hash(self[1])

\* impl PartialEq<Vec<u8>> for ByteString: self.0 == *other
ByteString_eq_Vec(self, other) == slice_eq(self[1], other)

\* impl PartialEq<[u8]> for ByteString: self.0 == other
ByteString_eq_slice(self, other) == slice_eq(self[1], other)

\* impl PartialEq<ByteString> for Vec<u8>: self == &other.0
Vec_eq_ByteString(self, other) == slice_eq(self, other[1])

\* impl PartialEq<ByteString> for [u8]: self == &other.0[..]
slice_eq_ByteString(self, other) == slice_eq(self, other[1])

renderIdle == input = <<>> /\ op = "none" /\ sink = Formatter(0) /\ result = "none"

InitCmp ==
    /\ lhs \in SeqsUpTo(CmpBytes, MaxCmpLen)
    /\ rhs \in SeqsUpTo(CmpBytes, MaxCmpLen)
    /\ cop = "none"
    /\ cres = "none"
    /\ renderIdle
    /\ bufIdle
    /\ iterIdle

Compare(name, r) ==
    /\ cop = "none"
    /\ cop' = name
    /\ cres' = r
    /\ UNCHANGED <<lhs, rhs, renderVars, bufVars, iterVars>>

EqByteStr == Compare("ByteStr_eq", ByteStr_eq(ByteStr_new(lhs), ByteStr_new(rhs)))
CmpByteStr == Compare("ByteStr_cmp", ByteStr_cmp(ByteStr_new(lhs), ByteStr_new(rhs)))
HashByteStr == Compare("ByteStr_hash", <<ByteStr_hash(ByteStr_new(lhs)), ByteStr_hash(ByteStr_new(rhs))>>)
EqByteStrSlice == Compare("ByteStr_eq_slice", ByteStr_eq_slice(ByteStr_new(lhs), rhs))
EqSliceByteStr == Compare("slice_eq_ByteStr", slice_eq_ByteStr(lhs, ByteStr_new(rhs)))
EqByteString == Compare("ByteString_eq", ByteString_eq(ByteString_new(lhs), ByteString_new(rhs)))
CmpByteString == Compare("ByteString_cmp", ByteString_cmp(ByteString_new(lhs), ByteString_new(rhs)))
HashByteString == Compare("ByteString_hash", <<ByteString_hash(ByteString_new(lhs)), ByteString_hash(ByteString_new(rhs))>>)
EqByteStringVec == Compare("ByteString_eq_Vec", ByteString_eq_Vec(ByteString_new(lhs), rhs))
EqByteStringSlice == Compare("ByteString_eq_slice", ByteString_eq_slice(ByteString_new(lhs), rhs))
EqVecByteString == Compare("Vec_eq_ByteString", Vec_eq_ByteString(lhs, ByteString_new(rhs)))
EqSliceByteString == Compare("slice_eq_ByteString", slice_eq_ByteString(lhs, ByteString_new(rhs)))

NextCmp ==
    \/ EqByteStr \/ CmpByteStr \/ HashByteStr \/ EqByteStrSlice \/ EqSliceByteStr
    \/ EqByteString \/ CmpByteString \/ HashByteString
    \/ EqByteStringVec \/ EqByteStringSlice \/ EqVecByteString \/ EqSliceByteString

SpecCmp == InitCmp /\ [][NextCmp]_vars

\* A and B agree on their first k bytes.
AgreeUpTo(A, B, k) == \A i \in 1..k : A[i] = B[i]

\* A is before B in the lexicographic order of byte sequences: A is a proper
\* prefix of B, or A has the smaller byte where they first differ.
LexLess(A, B) ==
    \E k \in 0..Min(Len(A), Len(B)) :
        /\ AgreeUpTo(A, B, k)
        /\ \/ k = Len(A) /\ k < Len(B)
           \/ k < Len(A) /\ k < Len(B) /\ A[k + 1] < B[k + 1]

LexOrder(A, B) ==
    IF A = B THEN "Equal" ELSE IF LexLess(A, B) THEN "Less" ELSE "Greater"

EqOps ==
    {"ByteStr_eq", "ByteStr_eq_slice", "slice_eq_ByteStr", "ByteString_eq",
     "ByteString_eq_Vec", "ByteString_eq_slice", "Vec_eq_ByteString", "slice_eq_ByteString"}

\* C9: on ByteStr and ByteString, == (also against a raw slice or vector, in
\* both operand orders) is equality of the byte sequences, cmp is their
\* lexicographic order with a proper prefix before the longer sequence, and
\* the hash is the hash of the raw sequence, so equal sequences hash equally.
C9_PassThrough ==
    /\ cop \in EqOps => cres = (lhs = rhs)
    /\ cop \in {"ByteStr_cmp", "ByteString_cmp"} =>
           /\ cres = LexOrder(lhs, rhs)
           /\ (cres = "Greater") = LexLess(rhs, lhs)
    /\ cop \in {"ByteStr_hash", "ByteString_hash"} =>
           /\ cres = <<slice_hash(lhs), slice_hash(rhs)>>
           /\ (lhs = rhs => cres[1] = cres[2])

C9_Witness ==
    /\ cop = "ByteString_cmp"
    /\ lhs = <<255>>
    /\ rhs = <<255, 0>>
    /\ cres = "Less"

C9_WitnessGreaterShorter ==
    /\ cop = "ByteStr_cmp"
    /\ lhs = <<255>>
    /\ rhs = <<97, 97>>
    /\ cres = "Greater"

-----------------------------------------------------------------------------
(* A ByteString under mutation *)

MaxBuf == 3         \* longest buffer of the buffer specification

\* The bytes stored: one hex-escaped, one backslash-escaped, one literal.
BufBytes == {0, 39, 120}

\* impl Default for ByteString: ByteString::new(vec![])
ByteString_default == ByteString_new(<<>>)

\* Vec::from_iter: the items pushed in the order the iterator yields them.
RECURSIVE Vec_from_iter(_, _)
Vec_from_iter(v, iter) ==
    IF iter = <<>> THEN v ELSE Vec_from_iter(Append(v, Head(iter)), Tail(iter))

\* impl FromIterator<u8> for ByteString: ByteString::new(Vec::from_iter(iter))
ByteString_from_iter(iter) == ByteString_new(Vec_from_iter(<<>>, iter))

\* impl DerefMut for ByteString: &mut self.0, on which callers invoke the
\* vector's own push, truncate and index assignment.
ByteString_deref_mut(self) == self[1]

\* bs.push(x)
ByteString_push(self, x) == <<Append(ByteString_deref_mut(self), x)>>

\* bs.truncate(n): no effect when n is not below the length.
ByteString_truncate(self, n) ==
    LET v == ByteString_deref_mut(self)
    IN  IF n >= Len(v) THEN <<v>> ELSE <<SubSeq(v, 1, n)>>

\* bs[i] = x, i counted from 0 (panics when i is out of range).
ByteString_index_assign(self, i, x) ==
    <<[ByteString_deref_mut(self) EXCEPT ![i + 1] = x]>>

InitBuf ==
    /\ \E v \in SeqsUpTo(BufBytes, MaxBuf) :
           \/ buf = ByteString_new(v) /\ bop = "new" /\ before = v
           \/ buf = ByteString_default /\ bop = "default" /\ before = <<>>
           \/ buf = ByteString_from_iter(v) /\ bop = "from_iter" /\ before = v
    /\ rendered = <<>>
    /\ renderIdle
    /\ cmpIdle
    /\ iterIdle

Mutate(name, b) ==
    /\ bop' = name
    /\ before' = buf[1]
    /\ buf' = b
    /\ rendered' = <<>>
    /\ UNCHANGED <<renderVars, cmpVars, iterVars>>

Push ==
    \E x \in BufBytes :
        /\ Len(buf[1]) < MaxBuf
        /\ Mutate("push", ByteString_push(buf, x))

Truncate ==
    \E n \in 0..MaxBuf : Mutate("truncate", ByteString_truncate(buf, n))

IndexAssign ==
    \E i \in 0..(MaxBuf - 1), x \in BufBytes :
        /\ i < Len(buf[1])
        /\ Mutate("index_assign", ByteString_index_assign(buf, i, x))

\* Mutant: the render formats the contents the buffer had before its last
\* operation (a copy taken too early).
Render_stale ==
    /\ bop' = "render"
    /\ before' = buf[1]
    /\ rendered' = ByteString_Debug_fmt(ByteString_new(before), Formatter(0)).f.out
    /\ UNCHANGED <<buf, renderVars, cmpVars, iterVars>>

\* format!("{:?}", bs): fmt takes &self, the buffer is only read.
Render ==
    /\ bop' = "render"
    /\ before' = buf[1]
    /\ rendered' = ByteString_Debug_fmt(buf, Formatter(0)).f.out
    /\ UNCHANGED <<buf, renderVars, cmpVars, iterVars>>

NextBuf == Push \/ Truncate \/ IndexAssign \/ Render

SpecBuf == InitBuf /\ [][NextBuf]_vars

\* C10: starting from new(v), default() or collection from an iterator, and
\* whatever pushes, truncations and index assignments came in between, a
\* render returns the escaping of the buffer's contents at that moment and
\* leaves the contents and the length as they were; new(v) holds v,
\* default() is empty and a collected buffer holds the items in order.
C10_RenderCurrent ==
    /\ bop = "render" =>
           /\ rendered = <<98, 34>> \o ConcatEscapes(buf[1]) \o <<34>>
           /\ buf[1] = before
           /\ Len(buf[1]) = Len(before)
    /\ bop \in {"new", "from_iter"} => buf[1] = before
    /\ bop = "default" => buf[1] = <<>>

\* A render of a three-byte buffer holding one byte of each escape length.
C10_Witness ==
    /\ bop = "render"
    /\ buf = <<<<120, 0, 39>>>>
    /\ rendered = <<98, 34, 120, 92, 120, 48, 48, 92, 39, 34>>

-----------------------------------------------------------------------------
(* Iteration by reference *)

MaxIter == 3        \* longest value of the iteration specification

\* The bytes iterated; sequences over them repeat a byte and are not sorted.
IterBytes == {0, 97, 255}

\* impl IntoIterator for &mut ByteStr: (&mut self.0).into_iter()
ByteStr_into_iter_mut(self) == self[1]

\* Mutant: the items come last byte first (as from .rev()).
ByteString_into_iter_ref_rev(self) ==
    [i \in 1..Len(self[1]) |-> self[1][Len(self[1]) + 1 - i]]

\* impl IntoIterator for &ByteString: (&self.0).into_iter()
ByteString_into_iter_ref(self) == self[1]

\* impl IntoIterator for &mut ByteString: (&mut self.0).into_iter()
ByteString_into_iter_mut(self) == self[1]

\* core::slice::Iter / IterMut, the IntoIter of the four impls: a fresh
\* iterator stands before the first item of the slice.
slice_Iter(items) == [items |-> items, pos |-> 0]

\* Iterator::next on it: the item at the position and the iterator moved
\* past it, or None once the position has reached the end.
Iter_next(c) ==
    IF c.pos < Len(c.items)
    THEN [some |-> TRUE, val |-> c.items[c.pos + 1], it |-> [c EXCEPT !.pos = c.pos + 1]]
    ELSE [some |-> FALSE, val |-> 0, it |-> c]

IterKinds == {"&ByteStr", "&mut ByteStr", "&ByteString", "&mut ByteString"}

InitIter ==
    /\ isrc \in SeqsUpTo(IterBytes, MaxIter)
    /\ ikind \in IterKinds
    /\ ipc = "idle"
    /\ cursor = slice_Iter(<<>>)
    /\ yielded = <<>>
    /\ pass = 0
    /\ first = <<>>
    /\ renderIdle
    /\ cmpIdle
    /\ bufIdle

\* A for loop over the value starts: into_iter() is called, at first or
\* once the previous iteration has ended, on the value left unmodified.
IntoIter(kind, items) ==
    /\ ikind = kind
    /\ \/ ipc = "idle" /\ pass = 0
       \/ ipc = "done" /\ pass = 1
    /\ pass' = pass + 1
    /\ first' = IF pass = 1 THEN yielded ELSE first
    /\ cursor' = slice_Iter(items)
    /\ yielded' = <<>>
    /\ ipc' = "iterating"
    /\ UNCHANGED <<isrc, ikind, renderVars, cmpVars, bufVars>>

IntoIterByteStr == IntoIter("&ByteStr", ByteStr_into_iter(ByteStr_new(isrc)))
IntoIterByteStrMut == IntoIter("&mut ByteStr", ByteStr_into_iter_mut(ByteStr_new(isrc)))
IntoIterByteString == IntoIter("&ByteString", ByteString_into_iter_ref(ByteString_new(isrc)))
IntoIterByteStringMut == IntoIter("&mut ByteString", ByteString_into_iter_mut(ByteString_new(isrc)))

\* next() returns Some(item): the loop body receives it.
NextSome ==
    /\ ipc = "iterating"
    /\ Iter_next(cursor).some
    /\ yielded' = Append(yielded, Iter_next(cursor).val)
    /\ cursor' = Iter_next(cursor).it
    /\ UNCHANGED <<isrc, ikind, ipc, pass, first, renderVars, cmpVars, bufVars>>

\* next() returns None: the loop ends.
NextNone ==
    /\ ipc = "iterating"
    /\ ~Iter_next(cursor).some
    /\ ipc' = "done"
    /\ cursor' = Iter_next(cursor).it
    /\ UNCHANGED <<isrc, ikind, yielded, pass, first, renderVars, cmpVars, bufVars>>

NextIter ==
    \/ IntoIterByteStr \/ IntoIterByteStrMut \/ IntoIterByteString \/ IntoIterByteStringMut
    \/ NextSome \/ NextNone

SpecIter == InitIter /\ [][NextIter]_vars

\* C11: iterating a ByteStr or a ByteString by reference yields its bytes,
\* each once and in sequence order, and ends after length-many items; a
\* second iteration of the unmodified value starts from the first byte again
\* and yields the same sequence.
C11_Iteration ==
    /\ ipc = "iterating" =>
           /\ Len(yielded) <= Len(isrc)
           /\ yielded = SubSeq(isrc, 1, Len(yielded))
    /\ ipc = "done" =>
           /\ Len(yielded) = Len(isrc)
           /\ yielded = isrc
    /\ pass = 2 => first = isrc
    /\ (pass = 2 /\ ipc = "done") => yielded = first

C11_Witness ==
    /\ ikind = "&ByteString"
    /\ isrc = <<97, 0, 97>>
    /\ pass = 2
    /\ ipc = "done"
    /\ yielded = <<97, 0, 97>>
    /\ first = <<97, 0, 97>>

\* The second iteration under way, its first item being the first byte.
C11_WitnessRestart ==
    /\ ikind = "&ByteStr"
    /\ isrc = <<255, 0>>
    /\ pass = 2
    /\ ipc = "iterating"
    /\ yielded = <<255>>

====
